---- MODULE Spec2Model ----
\* A model of presto-stream-client: the Statement fetch loop (lib/index.js),
\* the transport adapter makeRequest and the Client request closures it uses.
\* The Readable base class, the HTTP server and the timers are the environment.
EXTENDS Integers, Sequences, FiniteSets, TLC

\* ---------------------------------------------------------------- bounds
\* Longest next-uri chain the server hands out: uris are 1..MaxPages.
MaxPages == 2
\* Most calls of statement.cancel() the consumer makes.
MaxCancels == 1
\* Longest string cell given to the text encoding.
MaxCellLen == 3
\* Longest column list given to the column resolution.
MaxColumns == 4

\* ---------------------------------------------------------------- values
NoUri == 0
NoColumns == <<>>
NoData == 0 - 1
NoSession == ""
NullState == "null"

\* _destroy: the states for which no remote cancellation is issued.
TerminalStates == {"FINISHED", "CANCELED", "FAILED"}
\* _run: the states that make the loop wait on the poll timer.
PollStates == {"QUEUED", "PLANNING", "STARTING", "RUNNING"}
\* The states the modelled server reports.
ServerStates == {"QUEUED", "RUNNING", "FINISHED", "FAILED"}
\* The numbers of rows a response's data array holds.
RowCounts == {0, 2}
\* The column lists (names) the modelled server sends: the query's schema has
\* a name that recurs and one that does not.
ColumnLists == {<<"a", "a", "b">>}
\* The session tokens a Statement is constructed with.
Sessions == {NoSession, "s1"}

VARIABLES
    objectMode,     \* this[s_objectMode]
    fetchInfo,      \* this.fetchInfo
    stateListener,  \* this.listenerCount('state') > 0
    session,        \* this[s_session]
    EOF,            \* this[s_EOF]
    SOF,            \* this[s_SOF]
    state,          \* this[s_state]
    nextUri,        \* this[s_nextUri]
    cancelled,      \* this[s_cancelled]
    isRunning,      \* this[s_isRunning]
    client,         \* this.client is not null
    columns,        \* this.columns
    destroyed,      \* Readable: destroy() has run _destroy
    destroyCb,      \* how _destroy's callback was invoked: "none", "ok", "err"
    gets,           \* outstanding GETs against the next-uri chain (their uris)
    infoGets,       \* outstanding GETs against the info uri
    timers,         \* pending poll timers
    kills,          \* outstanding DELETE /v1/query/{id}, counted by who called cancel()
    cancelCalls,    \* calls of cancel() made by the consumer
    log,            \* what the Statement pushed and emitted, in order
    faults,         \* exceptions thrown out of a handler (never emitted as 'error')
    last,           \* the handler that ran last and the path it took
    csv,            \* a cell, its text encoding and the function that encoded it
    call,           \* a call of Client.execute or Statement.cancel and how it settled
    p1,             \* the Statement of unnamed/part_001, which keeps a readBuffer
    schema          \* a column list, its resolved names and a record built from them

stmt == <<objectMode, fetchInfo, stateListener, session, EOF, SOF, state, nextUri,
          cancelled, isRunning, client, columns>>
env == <<destroyed, destroyCb, gets, infoGets, timers, kills, cancelCalls, log, faults, last>>
vars == <<stmt, env, csv, call, p1, schema>>

\* ---------------------------------------------------------------- log
Ev(k, p, i) == [k |-> k, p |-> p, i |-> i]
EndMarker == Ev("end", 0, 0)
IsItem(e) == e.k \in {"header", "row", "block"}
Count(k) == Cardinality({j \in 1..Len(log) : log[j].k = k})

\* ---------------------------------------------------------------- convertToCSV
\* Text is a sequence of characters; a number is one token, its decimal form.
Q == "\""
Chars == {"x", ",", Q}
RECURSIVE Strings(_)
Strings(n) ==
    IF n = 0 THEN {<<>>}
    ELSE LET shorter == Strings(n - 1) IN
         shorter \cup {Append(t, c) : t \in {u \in shorter : Len(u) = n - 1}, c \in Chars}

\* A cell of a row as JSON delivers it: a number, null, a string, a boolean or
\* an array of strings (typeof gives "object" for null and for arrays).
Cell(type, isNull, num, text) == [type |-> type, isNull |-> isNull, num |-> num, text |-> text]
Cells ==
    {Cell("number", FALSE, n, <<>>) : n \in {0, 42}}
      \cup {Cell("object", TRUE, 0, <<>>)}
      \cup {Cell("object", FALSE, 0, t) : t \in {<<>>, <<"x">>}}
      \cup {Cell("boolean", FALSE, n, <<>>) : n \in {0, 1}}
      \cup {Cell("string", FALSE, 0, t) : t \in Strings(MaxCellLen)}

\* String(input) for a cell that is not a number.
StringOf(input) ==
    IF input.type = "object"
    THEN IF input.isNull THEN <<"null">> ELSE input.text      \* Array: join(',')
    ELSE IF input.type = "boolean"
         THEN IF input.num = 1 THEN <<"true">> ELSE <<"false">>
         ELSE input.text
\* jsonParser.stringify(input) for an array of strings.
Stringify(input) ==
    IF input.text = <<>> THEN <<"[", "]">> ELSE <<"[", Q>> \o input.text \o <<Q, "]">>

\* s.replace(/"/g, '""')
RECURSIVE ReplaceAll(_)
ReplaceAll(t) ==
    IF t = <<>> THEN <<>>
    ELSE (IF Head(t) = Q THEN <<Q, Q>> ELSE <<Head(t)>>) \o ReplaceAll(Tail(t))
\* s.replace('"', '""'): a string pattern replaces the first match only.
RECURSIVE ReplaceFirst(_)
ReplaceFirst(t) ==
    IF t = <<>> THEN <<>>
    ELSE IF Head(t) = Q THEN <<Q, Q>> \o Tail(t)
    ELSE <<Head(t)>> \o ReplaceFirst(Tail(t))

\* convertToCSV of lib/index.js, as the text join(',') makes of what it returns.
ConvertToCSV(input) ==
    CASE input.type = "number" -> <<ToString(input.num)>>
      [] input.type = "object" ->
           IF input.isNull THEN <<Q, Q>>
           ELSE <<Q>> \o ReplaceAll(Stringify(input)) \o <<Q>>
      [] OTHER -> <<Q>> \o ReplaceAll(StringOf(input)) \o <<Q>>

\* convertToCSV of the earlier library file (unnamed/part_001): a non-null
\* object falls through to the default case.
ConvertToCSV_part_001(input) ==
    CASE input.type = "number" -> <<ToString(input.num)>>
      [] input.type = "object" /\ input.isNull -> <<Q, Q>>
      [] OTHER -> <<Q>> \o ReplaceFirst(StringOf(input)) \o <<Q>>

\* No cell is being encoded (the Statement's behaviours).
NoCsv == [input |-> Cell("none", FALSE, 0, <<>>), output |-> <<>>, by |-> "none"]

\* ---------------------------------------------------------------- makeRequest
\* What the server (or the network) answers to one request.
HttpReplies ==
    { [net |-> "ok", response_code |-> 200, json |-> TRUE, parses |-> TRUE],
      [net |-> "ok", response_code |-> 200, json |-> TRUE, parses |-> FALSE],
      [net |-> "ok", response_code |-> 204, json |-> FALSE, parses |-> FALSE],
      [net |-> "ok", response_code |-> 503, json |-> FALSE, parses |-> FALSE],
      [net |-> "ok", response_code |-> 500, json |-> TRUE, parses |-> TRUE],
      [net |-> "error", response_code |-> 0, json |-> FALSE, parses |-> FALSE] }

\* The object makeRequest's first promise resolves with.
Resolved(reply) ==
    [response_code |-> reply.response_code, data |-> reply.parses,
     response_type |-> reply.json]

\* A JavaScript property read: the empty set stands for undefined.
JSGet(obj, field) == IF field \in DOMAIN obj THEN {obj[field]} ELSE {}

\* The test that guards the 503 retry.
IsRetry(response) == 503 \in JSGet(response, "code")

\* The session headers of a response: X-Presto-Set-Session (a token or absent)
\* and X-Presto-Clear-Session.
ServerToken == "s2"
NoSig == [set |-> NoSession, clear |-> FALSE]
SessionHeaders ==
    { [set |-> NoSession, clear |-> FALSE],
      [set |-> ServerToken, clear |-> FALSE],
      [set |-> NoSession, clear |-> TRUE] }

\* response.data as makeRequest holds it: the raw text of the body, a string,
\* whose only own property is its length.
RawData == [length |-> 2]
\* The test that guards the session fields of the output.
IsSessionUpdate == TRUE \in JSGet(RawData, "updateType")
\* The session and clear_session fields of the object handed to the callback
\* for a parsed body (absent: NoSession, FALSE).
SessionFields(hdr) ==
    IF IsSessionUpdate
    THEN IF hdr.set # NoSession
         THEN [session |-> hdr.set, clear_session |-> FALSE]
         ELSE [session |-> NoSession, clear_session |-> TRUE]
    ELSE [session |-> NoSession, clear_session |-> FALSE]

\* How makeRequest ends for a reply: "retry" (re-issue after 50-100 ms),
\* "body" (callback(null, {response_code, data})), "empty" (callback(null,
\* {response_code, data: {}})), "error" (callback(err), one argument).
MakeRequest(reply) ==
    IF reply.net = "error" THEN "error"
    ELSE LET response == Resolved(reply) IN
         IF IsRetry(response) THEN "retry"
         ELSE IF response.response_code < 300
              THEN IF ~response.response_type THEN "empty"
                   ELSE IF response.data THEN "body" ELSE "error"
              ELSE "error"

\* ---------------------------------------------------------------- Client
\* What a POST /v1/statement is answered with: the replies a GET can get, and
\* a parsed JSON body with a 2xx code other than 200.
SubmitReplies ==
    HttpReplies \cup {[net |-> "ok", response_code |-> 202, json |-> TRUE, parses |-> TRUE]}

\* The JSON body of a submit response: its error field (absent, with a
\* message, without one) and whether id, nextUri and infoUri are present.
SubmitBodies ==
    [error : {"none", "message", "nomessage"}, id : BOOLEAN, nextUri : BOOLEAN,
     infoUri : BOOLEAN]
\* data: {} of makeRequest's output for a response without a JSON body.
EmptyBody == [error |-> "none", id |-> FALSE, nextUri |-> FALSE, infoUri |-> FALSE]

\* The options of Client.execute: which of catalog, schema and query is
\* missing (if any), and the session option.
ExecuteOpts == [missing : {"none", "catalog", "schema", "query"}, session : Sessions]

\* How a promise settles: kind is "Statement", "resolved", or the error that
\* rejects it; code and data tell whether the error has response_code and
\* data; value is what it resolves with; sent tells whether the request went out.
Settled(kind, code, data, value, sent) ==
    [kind |-> kind, code |-> code, data |-> data, value |-> value, sent |-> sent]
Undefined == "undefined"

\* The error makeRequest hands to the callback: the network error, or
\* new prestoError(message, response).
RequestError(reply) ==
    IF reply.net = "error" THEN Settled("Error", FALSE, FALSE, Undefined, TRUE)
    ELSE Settled("prestoError", TRUE, TRUE, Undefined, TRUE)

\* Client.execute after the submit response resolved with response_code and data.
ExecuteCheck(response_code, data) ==
    IF response_code # 200 \/ data.error # "none"
    THEN CASE data.error = "none" -> Settled("TypeError", FALSE, FALSE, Undefined, TRUE)
           [] data.error = "message" -> Settled("prestoError", TRUE, FALSE, Undefined, TRUE)
           [] OTHER -> Settled("prestoError", TRUE, FALSE, Undefined, TRUE)
    ELSE IF ~data.id \/ ~data.nextUri \/ ~data.infoUri
         THEN Settled("prestoError", FALSE, TRUE, Undefined, TRUE)
         ELSE Settled("Statement", FALSE, FALSE, "nextUri,id", TRUE)

\* Client.execute(opts), the POST answered by reply with JSON body body.
Execute(opts, reply, body) ==
    IF opts.missing # "none" THEN Settled("Error", FALSE, FALSE, Undefined, FALSE)
    ELSE IF opts.session # NoSession               \* opts.header is undefined
         THEN Settled("TypeError", FALSE, FALSE, Undefined, FALSE)
    ELSE LET out == MakeRequest(reply) IN
         CASE out = "body" -> ExecuteCheck(reply.response_code, body)
           [] out = "empty" -> ExecuteCheck(reply.response_code, EmptyBody)
           [] out = "error" -> RequestError(reply)
           [] OTHER -> Settled("retry", FALSE, FALSE, Undefined, TRUE)

\* Client.kill(query_id), the DELETE answered by reply.
Kill(reply) ==
    LET out == MakeRequest(reply) IN
    CASE out \in {"body", "empty"} -> Settled("resolved", FALSE, FALSE, Undefined, TRUE)
      [] out = "error" -> RequestError(reply)
      [] OTHER -> Settled("retry", FALSE, FALSE, Undefined, TRUE)

\* The poll interval given to the Client constructor (0: none given).
PollIntervals == {0, 500}
QUERY_STATE_CHECK_INTERVAL == 3000
\* Client.pollInterval as the constructor sets it.
ClientPollInterval(arg) == IF arg # 0 THEN arg ELSE QUERY_STATE_CHECK_INTERVAL

\* The ordinary properties the Statement constructor assigns; its pollInterval
\* parameter is assigned to none.
NewStatement(info, pollInterval) ==
    [client |-> TRUE, columns |-> NoColumns, fetchInfo |-> info]
\* setTimeout(f, delay): a delay that is no number of at least 1 becomes 1 ms.
SetTimeoutDelay(delay) ==
    IF delay = {} THEN 1
    ELSE LET d == CHOOSE x \in delay : TRUE IN IF d < 1 THEN 1 ELSE d
\* The delay of the poll timer: setTimeout(..., this.pollInterval).
PollDelay(statement) == SetTimeoutDelay(JSGet(statement, "pollInterval"))

\* No call of the client is followed (the Statement's behaviours).
NoCall ==
    [op |-> "none", opts |-> [missing |-> "none", session |-> NoSession],
     reply |-> CHOOSE r \in HttpReplies : r.net = "error", body |-> EmptyBody,
     settled |-> FALSE, outcome |-> Settled("none", FALSE, FALSE, Undefined, FALSE),
     config |-> 0, delay |-> 0]

\* No column list is followed (the Statement's behaviours).
NoSchema == [input |-> NoColumns, names |-> NoColumns, output |-> <<>>, step |-> "none"]

\* ---------------------------------------------------------------- server
\* The JSON body of a response to GET uri k.
Bodies(k) ==
    { b \in [state : ServerStates, data : {NoData} \cup RowCounts,
             columns : {NoColumns} \cup ColumnLists, next : BOOLEAN,
             error : BOOLEAN, info : BOOLEAN] :
        /\ b.next => k < MaxPages
        \* the protocol sends a continuation while the query has not produced rows
        /\ (b.state \in PollStates /\ b.data = NoData /\ ~b.error) => b.next
        \* the protocol never sends data without columns
        /\ b.data # NoData => b.columns # NoColumns
        \* an error field comes with state FAILED
        /\ b.error => b.state = "FAILED"
        \* the info uri is read only when the chain ends and fetchInfo is set
        /\ (b.next \/ ~fetchInfo) => b.info }

\* The session headers that come with body b: the server signals a session
\* update with the last response of a statement that finished.
HeadersOf(b) ==
    IF b.state = "FINISHED" /\ ~b.next THEN SessionHeaders ELSE {NoSig}

\* ---------------------------------------------------------------- Statement
\* The fields a handler changes, as one record (the handler's working copy).
Cur ==
    [EOF |-> EOF, SOF |-> SOF, state |-> state, nextUri |-> nextUri,
     cancelled |-> cancelled, isRunning |-> isRunning, columns |-> columns,
     session |-> session, gets |-> gets, infoGets |-> infoGets, timers |-> timers, kills |-> kills,
     log |-> log, faults |-> faults, canPush |-> TRUE, done |-> FALSE, path |-> ""]

Emit(m, e) == [m EXCEPT !.log = Append(@, e)]
Finish(m, path) == [m EXCEPT !.done = TRUE, !.path = path]
\* A TypeError thrown out of the handler: nothing after it runs.
Fault(m) == Finish([m EXCEPT !.faults = @ + 1], "fault")

Commit(m) ==
    /\ EOF' = m.EOF
    /\ SOF' = m.SOF
    /\ state' = m.state
    /\ nextUri' = m.nextUri
    /\ cancelled' = m.cancelled
    /\ isRunning' = m.isRunning
    /\ columns' = m.columns
    /\ session' = m.session
    /\ gets' = m.gets
    /\ infoGets' = m.infoGets
    /\ timers' = m.timers
    /\ kills' = m.kills
    /\ log' = m.log
    /\ faults' = m.faults

\* Statement._statementCancelled: the end marker, once.
\* (mutant: the marker is pushed but the flag is not set)
PushEnd_NoFlag(m) == IF ~m.EOF THEN Emit(m, EndMarker) ELSE m
PushEnd(m) == IF ~m.EOF THEN Emit([m EXCEPT !.EOF = TRUE], EndMarker) ELSE m

StatementCancelled(m) == IF m.cancelled THEN PushEnd(m) ELSE m

\* Client[s_request] called with a callback, from _run.
Request(m) ==
    IF ~client THEN Fault(m)                       \* this.client is null
    ELSE IF m.session # NoSession THEN Fault(m)    \* requestOpts.header is undefined
    ELSE [m EXCEPT !.gets = Append(@, m.nextUri)]

\* Statement._run up to the request it issues.
\* (mutant: no cancellation check before the request)
Run_NoCancelCheck(m) == Request([m EXCEPT !.isRunning = TRUE])
Run(m) ==
    LET m1 == [m EXCEPT !.isRunning = TRUE] IN
    IF m1.cancelled
    THEN Finish([StatementCancelled(m1) EXCEPT !.isRunning = FALSE], "cancelled")
    ELSE Request(m1)

\* Who calls Statement.cancel: the consumer, _run's callback on a query error,
\* _destroy.
Origins == {"user", "error", "destroy"}

\* Statement.cancel called by origin o.
\* With the client released, client.kill throws inside the async function and
\* the promise rejects: the "error" origin emits that rejection.
\* (mutant: cancel() leaves s_nextUri as it is)
CancelCall_KeepsUri(m, o) ==
    LET m1 == [m EXCEPT !.cancelled = TRUE] IN
    IF client THEN [m1 EXCEPT !.kills[o] = @ + 1]
    ELSE IF o = "error" THEN Emit(m1, Ev("error", 0, 2))
    ELSE m1
\* (mutant: a Statement that was cancelled before issues no further kill)
CancelCall_OnlyOnce(m, o) ==
    LET m1 == [m EXCEPT !.cancelled = TRUE, !.nextUri = NoUri] IN
    IF client /\ ~m.cancelled THEN [m1 EXCEPT !.kills[o] = @ + 1]
    ELSE IF o = "error" /\ ~client THEN Emit(m1, Ev("error", 0, 2))
    ELSE m1
CancelCall(m, o) ==
    LET m1 == [m EXCEPT !.cancelled = TRUE, !.nextUri = NoUri] IN
    IF client THEN [m1 EXCEPT !.kills[o] = @ + 1]
    ELSE IF o = "error" THEN Emit(m1, Ev("error", 0, 2))
    ELSE m1

\* Object mode: the names that occur more than once (first forEach of _run).
Duplicates(cols) ==
    { cols[j] : j \in { j \in 1..Len(cols) : \E h \in 1..(j - 1) : cols[h] = cols[j] } }

\* Object mode: the renaming loop; cnt is the duplicates object.
RECURSIVE Rename(_, _)
Rename(cols, cnt) ==
    IF cols = <<>> THEN <<>>
    ELSE LET colName == Head(cols) IN
         IF colName \in DOMAIN cnt
         THEN <<colName \o "_" \o ToString(cnt[colName])>>
              \o Rename(Tail(cols), [cnt EXCEPT ![colName] = @ + 1])
         ELSE <<colName>> \o Rename(Tail(cols), cnt)

DedupColumns(cols) ==
    LET d == Duplicates(cols) IN
    IF d = {} THEN cols ELSE Rename(cols, [n \in d |-> 1])

\* this.push(chunk): the item is handed over, flow is the value push returns.
Push(m, e, flow) == [Emit(m, e) EXCEPT !.canPush = flow]

\* The continuation uri of body b, the answer to GET k.
ContinuationOf(k, b) == IF b.next THEN k + 1 ELSE NoUri

\* _run's callback, after a cancel() made while the request was outstanding.
\* (mutant: the second check is missing)
CheckCancelled_Skip(m) == m
CheckCancelled(m) ==
    IF m.done THEN m
    ELSE IF m.cancelled
         THEN Finish([StatementCancelled(m) EXCEPT !.isRunning = FALSE], "cancelled")
         ELSE m

\* _run's callback: the session update the output carries.
ApplySession(m, o) ==
    IF m.done THEN m
    ELSE IF o.session # NoSession THEN [m EXCEPT !.session = o.session]
    ELSE IF o.clear_session THEN [m EXCEPT !.session = NoSession]
    ELSE m

\* _run's callback: the response carries an error field.
\* (mutant: the error is emitted but the query is not cancelled)
QueryError_NoKill(m, k, b) ==
    IF m.done \/ ~b.error THEN m
    ELSE Finish([Emit(m, Ev("error", k, 1)) EXCEPT !.isRunning = FALSE], "error")
QueryError(m, k, b) ==
    IF m.done \/ ~b.error THEN m
    ELSE LET m1 == Emit(m, Ev("error", k, 1))
             m2 == CancelCall(m1, "error")
         IN Finish([m2 EXCEPT !.isRunning = FALSE], "error")

\* _run's callback: the periodic 'state' event.
\* (mutant: s_SOF is not consulted)
StateEvent_IgnoresSOF(m, k, b) ==
    IF m.done THEN m
    ELSE IF stateListener THEN Emit(m, Ev("state", k, 0)) ELSE m
StateEvent(m, k, b) ==
    IF m.done THEN m
    ELSE IF stateListener /\ ~m.SOF THEN Emit(m, Ev("state", k, 0)) ELSE m

\* _run's callback: 'state_change' and the last-known state.
\* (mutant: the notification is emitted but the last-known state is not updated)
StateChange_NoUpdate(m, k, b) ==
    IF m.done \/ m.state = b.state THEN m
    ELSE LET m1 == Emit(m, Ev("state_change", k, 0))
         IN IF b.state = "FINISHED" THEN [m1 EXCEPT !.SOF = TRUE] ELSE m1
StateChange(m, k, b) ==
    IF m.done \/ m.state = b.state THEN m
    ELSE LET m1 == Emit([m EXCEPT !.state = b.state], Ev("state_change", k, 0))
         IN IF m1.state = "FINISHED" THEN [m1 EXCEPT !.SOF = TRUE] ELSE m1

\* _run's callback: the query has produced no rows yet, wait pollInterval.
\* (mutant: an empty data array counts as no data)
Poll_WhenNoRows(m, k, b) ==
    IF m.done THEN m
    ELSE IF b.state \in PollStates /\ b.data \in {NoData, 0}
         THEN Finish([m EXCEPT !.nextUri = ContinuationOf(k, b), !.timers = @ + 1], "poll")
         ELSE m
Poll(m, k, b) ==
    IF m.done THEN m
    ELSE IF b.state \in PollStates /\ b.data = NoData
         THEN Finish([m EXCEPT !.nextUri = ContinuationOf(k, b), !.timers = @ + 1], "poll")
         ELSE m

\* _run's callback: the first schema; object mode renames, text mode pushes the header.
\* (mutant: the header push is missing)
Columns_NoHeader(m, k, b, flow) ==
    IF m.done \/ m.columns # NoColumns \/ b.columns = NoColumns THEN m
    ELSE Emit([m EXCEPT !.columns = b.columns], Ev("columns", k, 0))
\* (mutant: the schema is recorded whenever a response carries one)
Columns_EveryResponse(m, k, b, flow) ==
    IF m.done \/ b.columns = NoColumns THEN m
    ELSE LET m1 == Emit([m EXCEPT !.columns = b.columns], Ev("columns", k, 0)) IN
         IF objectMode THEN [m1 EXCEPT !.columns = DedupColumns(@)]
         ELSE IF ~client THEN Fault(m1)
         ELSE Push(m1, Ev("header", k, 0), flow)
Columns(m, k, b, flow) ==
    IF m.done \/ m.columns # NoColumns \/ b.columns = NoColumns THEN m
    ELSE LET m1 == Emit([m EXCEPT !.columns = b.columns], Ev("columns", k, 0)) IN
         IF objectMode THEN [m1 EXCEPT !.columns = DedupColumns(@)]
         ELSE IF ~client THEN Fault(m1)          \* this.client.jsonParser
         ELSE Push(m1, Ev("header", k, 0), flow)

\* _run's callback: the rows, one push per row (object mode) or one block.
\* (mutant: the row loop stops at the first push that returns false)
PushRows_StopOnFalse(m, k, n, flow) ==
    IF n = 0 THEN m
    ELSE IF m.columns = NoColumns THEN Fault(m)
    ELSE [m EXCEPT !.log = @ \o [i \in 1..(IF flow THEN n ELSE 1) |-> Ev("row", k, i)],
                   !.canPush = flow]
PushRows(m, k, n, flow) ==
    IF n = 0 THEN m
    ELSE IF m.columns = NoColumns THEN Fault(m)  \* this.columns.length
    ELSE [m EXCEPT !.log = @ \o [i \in 1..n |-> Ev("row", k, i)], !.canPush = flow]

Data(m, k, b, flow) ==
    IF m.done \/ b.data = NoData THEN m
    ELSE IF objectMode THEN PushRows(m, k, b.data, flow)
    ELSE IF b.data > 0 /\ ~client THEN Fault(m)  \* this.client.jsonParser
    ELSE Push(m, Ev("block", k, b.data), flow)

\* Object mode: the row object, output[this.columns[y].name] = data.data[i][y]
\* for y in column order: a key assigned twice keeps the later cell. The cell
\* is named by its position y in the row.
RowObject(names) ==
    [n \in {names[y] : y \in 1..Len(names)} |->
        CHOOSE y \in 1..Len(names) :
            names[y] = n /\ \A z \in (y + 1)..Len(names) : names[z] # n]

\* Text mode: the characters of a pushed chunk, one token per rendered line
\* content (the header names or one row's cells joined by commas) and one per
\* newline. The header is names.join(',') + '\n'; a block is its rows joined
\* by '\n', with no newline after the last row.
NL == Ev("nl", 0, 0)
RECURSIVE JoinNL(_)
JoinNL(rows) ==
    IF rows = <<>> THEN <<>>
    ELSE IF Len(rows) = 1 THEN rows
    ELSE <<Head(rows), NL>> \o JoinNL(Tail(rows))
TextOf(e) ==
    IF e.k = "header" THEN <<e, NL>>
    ELSE IF e.k = "block" THEN JoinNL([i \in 1..e.i |-> Ev("row", e.p, i)])
    ELSE <<>>

\* _run's callback: client[s_request] without a callback, then .then on what
\* it returns (undefined): the GET is sent and the handler throws.
InfoRequest(m) ==
    IF ~client THEN Fault(m) ELSE Fault([m EXCEPT !.infoGets = @ + 1])

\* _run's callback: the result set is exhausted.
\* (mutant: the loop ends without the success notification)
Exhausted_Silent(m, k, b) ==
    LET m1 == PushEnd(m) IN
    IF fetchInfo /\ b.info THEN InfoRequest(m1)
    ELSE Finish([m1 EXCEPT !.isRunning = FALSE], "exhausted")
Exhausted(m, k, b) ==
    LET m1 == PushEnd(m) IN
    IF fetchInfo /\ b.info THEN InfoRequest(m1)
    ELSE Finish([Emit(m1, Ev("success", k, 0)) EXCEPT !.isRunning = FALSE], "exhausted")

\* _run's callback: back-pressure stops the loop until the next _read.
\* (mutant: the single-flight flag is not cleared)
Suspend_KeepsRunning(m, k, b) == Finish([m EXCEPT !.nextUri = k + 1], "backpressure")
Suspend(m, k, b) ==
    Finish([m EXCEPT !.nextUri = k + 1, !.isRunning = FALSE], "backpressure")

\* _run's callback: continue, suspend or finish.
\* (mutant: back-pressure ends the result set)
Advance_EndsOnPressure(m, k, b) ==
    IF m.done THEN m
    ELSE IF b.next /\ m.canPush
         THEN LET m1 == Run([m EXCEPT !.nextUri = k + 1]) IN
              IF m1.done THEN m1 ELSE Finish(m1, "continue")
         ELSE Exhausted(m, k, b)
Advance(m, k, b) ==
    IF m.done THEN m
    ELSE IF b.next
         THEN IF m.canPush
              THEN LET m1 == Run([m EXCEPT !.nextUri = k + 1]) IN
                   IF m1.done THEN m1 ELSE Finish(m1, "continue")
              ELSE Suspend(m, k, b)
         ELSE Exhausted(m, k, b)

\* _run's callback for callback(null, {response_code, data}).
\* (mutant: the cancellation is re-checked only after the state notifications)
OnBody_LateCancelCheck(m, k, b, flow, o) ==
    Advance(Data(Columns(Poll(CheckCancelled(StateChange(StateEvent(QueryError(
        ApplySession(m, o), k, b), k, b), k, b)), k, b), k, b, flow), k, b, flow), k, b)
\* (mutant: state_change is emitted before the periodic 'state')
OnBody_ChangeFirst(m, k, b, flow, o) ==
    Advance(Data(Columns(Poll(StateEvent(StateChange(QueryError(ApplySession(
        CheckCancelled(m), o), k, b), k, b), k, b), k, b), k, b, flow), k, b, flow), k, b)
OnBody(m, k, b, flow, o) ==
    Advance(Data(Columns(Poll(StateChange(StateEvent(QueryError(ApplySession(
        CheckCancelled(m), o), k, b), k, b), k, b), k, b), k, b, flow), k, b, flow), k, b)

\* callback(null, {response_code, data: {}}): data.stats is undefined.
OnEmpty(m) ==
    LET m1 == CheckCancelled(m) IN IF m1.done THEN m1 ELSE Fault(m1)

\* callback(err): the second parameter's destructuring throws.
OnError(m) == Fault(m)

\* ---------------------------------------------------------------- Statement of unnamed/part_001
\* The earlier Statement: run() keeps the rows it could not push in readBuffer.
\* The number of GETs followed.
MaxFetches == 3

\* The Statement as its constructor leaves it. pending tells what run() waits
\* for: "idle" (nothing), "request", "timer", or "failed" after an 'error'.
NewP1 ==
    [currentUri |-> 1, currentState |-> NullState, columns |-> FALSE, EOF |-> FALSE,
     readBuffer |-> <<>>, log |-> <<>>, fetched |-> <<>>, pending |-> "idle"]
\* The Statement of part_001 is not followed (the other behaviours).
NoP1 == [NewP1 EXCEPT !.pending = "none"]

P1Emit(s, e) == [s EXCEPT !.log = Append(@, e)]

\* run(): await this.client.request(this.currentUri); a throw is caught and
\* emitted as 'error'.
P1Request(s) ==
    IF s.currentUri = NoUri THEN [P1Emit(s, Ev("error", 0, 0)) EXCEPT !.pending = "failed"]
    ELSE [s EXCEPT !.fetched = Append(@, s.currentUri), !.pending = "request"]

\* run() from its start: the queue is drained first (n items are pushed and
\* the last push returns getNew), then the request is made.
P1Run(s, n, getNew) ==
    IF Len(s.readBuffer) > 0
    THEN LET s1 == [s EXCEPT !.log = @ \o SubSeq(s.readBuffer, 1, n),
                             !.readBuffer = SubSeq(@, n + 1, Len(@))]
         IN IF getNew THEN P1Request(s1) ELSE [s1 EXCEPT !.pending = "idle"]
    ELSE P1Request(s)

\* How the pushes of a drain can go: every push but the last returned true.
P1Drains(s) ==
    IF Len(s.readBuffer) = 0 THEN {<<0, TRUE>>}
    ELSE { d \in (1..Len(s.readBuffer)) \X BOOLEAN :
             d[1] < Len(s.readBuffer) => ~d[2] }

\* run(): the test of the polling branch, as JavaScript parses it:
\* QUEUED || PLANNING || STARTING || (RUNNING && !data.data).
P1Polls(b) ==
    \/ b.state \in {"QUEUED", "PLANNING", "STARTING"}
    \/ b.state = "RUNNING" /\ b.data = NoData

\* run() after the response to GET k resolved with body b: hflow is what the
\* push of the header returns, j the number of rows pushed and rflow what the
\* last of these pushes returns; the other rows are queued.
P1OnBody(s, k, b, hflow, j, rflow) ==
    IF b.error THEN [P1Emit(s, Ev("error", k, 1)) EXCEPT !.pending = "failed"]
    ELSE
    LET s1 == IF s.currentState # b.state
              THEN [P1Emit(s, Ev("state_change", k, 0)) EXCEPT !.currentState = b.state]
              ELSE s
        cols == b.columns # NoColumns /\ ~s1.columns
        s2 == IF cols
              THEN P1Emit(P1Emit([s1 EXCEPT !.columns = TRUE], Ev("columns", k, 0)),
                          Ev("header", k, 0))
              ELSE s1
        canPush0 == IF cols THEN hflow ELSE TRUE
    IN
    IF P1Polls(b)
    THEN [s2 EXCEPT !.currentUri = ContinuationOf(k, b), !.pending = "timer"]
    ELSE
    LET n == IF b.data = NoData THEN 0 ELSE b.data
        rows == [i \in 1..n |-> Ev("row", k, i)]
        s3 == [s2 EXCEPT !.log = @ \o SubSeq(rows, 1, j),
                         !.readBuffer = @ \o SubSeq(rows, j + 1, n)]
        canPush == IF j = 0 THEN canPush0 ELSE rflow
    IN
    IF b.next /\ canPush
    THEN P1Run([s3 EXCEPT !.currentUri = k + 1], 0, TRUE)
    ELSE IF canPush
         THEN LET s4 == IF ~s3.EOF THEN P1Emit([s3 EXCEPT !.EOF = TRUE], EndMarker) ELSE s3
              IN [P1Emit(s4, Ev("success", k, 0)) EXCEPT !.pending = "idle"]
         ELSE [s3 EXCEPT !.pending = "idle"]

\* How the pushes of a response of n rows can go after the header push
\* returned canPush0: the loop stops at the first push that returns false.
P1Pushes(n, canPush0) ==
    { d \in (0..n) \X BOOLEAN :
        /\ ~canPush0 => d[1] = 0
        /\ (canPush0 /\ n > 0) => d[1] > 0
        /\ (d[1] > 0 /\ d[1] < n) => ~d[2] }

\* ---------------------------------------------------------------- actions
\* The record of the Statement handler (or kill completion) that ran last: the
\* path it took, how makeRequest ended and whether the reply's status was 503.
\* err and data are the error field and the row count of the body handed to
\* _run's callback (FALSE and NoData when no body was); st and next are
\* data.stats.state and the presence of data.nextUri as the callback read them
\* (NullState and FALSE when it returned before reading data.stats); sig is the
\* session headers of the response the callback applied its session step to
\* (NoSig when it returned before that step); flow is canPush as the callback
\* read it for a response with a continuation uri (TRUE when it did not).
Note(op, path, out, code, err, data, st, next, sig, flow) ==
    [op |-> op, path |-> path, out |-> out, busy |-> (code = 503),
     err |-> err, data |-> data, st |-> st, next |-> next, sig |-> sig, flow |-> flow]

RemoveAt(q, i) == SubSeq(q, 1, i - 1) \o SubSeq(q, i + 1, Len(q))

Init ==
    /\ objectMode \in BOOLEAN
    /\ fetchInfo \in BOOLEAN
    /\ stateListener \in BOOLEAN
    /\ session \in Sessions
    /\ EOF = FALSE
    /\ SOF = FALSE
    /\ state = NullState
    /\ nextUri = 1
    /\ cancelled = FALSE
    /\ isRunning = FALSE
    /\ client = TRUE
    /\ columns = NoColumns
    /\ destroyed = FALSE
    /\ destroyCb = "none"
    /\ gets = <<>>
    /\ infoGets = 0
    /\ timers = 0
    /\ kills = [o \in Origins |-> 0]
    /\ cancelCalls = 0
    /\ log = <<>>
    /\ faults = 0
    /\ last = Note("init", "", "", 0, FALSE, NoData, NullState, FALSE, NoSig, TRUE)
    /\ csv = NoCsv
    /\ call = NoCall
    /\ p1 = NoP1
    /\ schema = NoSchema

\* Statement._read's test of the single-flight flag.
\* (mutant: _read always runs the loop)
ReadGuard_Always == TRUE
ReadGuard == ~isRunning

\* Statement._read, called by Readable while the stream has neither ended
\* (push(null)) nor been destroyed.
Read ==
    /\ ~EOF
    /\ ~destroyed
    /\ IF ReadGuard
       THEN LET m == Run(Cur) IN
            /\ Commit(m)
            /\ last' = Note("read", IF m.done THEN m.path ELSE "fetch", "", 0, FALSE,
                            NoData, NullState, FALSE, NoSig, TRUE)
       ELSE /\ last' = Note("read", "busy", "", 0, FALSE, NoData, NullState, FALSE, NoSig, TRUE)
            /\ UNCHANGED <<EOF, SOF, state, nextUri, cancelled, isRunning, columns, session,
                           gets, infoGets, timers, kills, log, faults>>
    /\ UNCHANGED <<objectMode, fetchInfo, stateListener, client, destroyed,
                   destroyCb, cancelCalls, csv, call, p1, schema>>

\* The poll timer set by _run's callback fires: this._run().
TimerFires ==
    /\ timers > 0
    /\ LET m == Run([Cur EXCEPT !.timers = @ - 1]) IN
       /\ Commit(m)
       /\ last' = Note("timer", IF m.done THEN m.path ELSE "fetch", "", 0, FALSE,
                       NoData, NullState, FALSE, NoSig, TRUE)
    /\ UNCHANGED <<objectMode, fetchInfo, stateListener, client, destroyed,
                   destroyCb, cancelCalls, csv, call, p1, schema>>

\* makeRequest completes a GET of the next-uri chain and _run's callback runs.
GetResponse ==
    \E i \in 1..Len(gets), reply \in HttpReplies :
      LET k == gets[i]
          out == MakeRequest(reply)
          m0 == [Cur EXCEPT !.gets = RemoveAt(@, i)]
      IN
      /\ \E b \in (IF out = "body" THEN Bodies(k) ELSE {CHOOSE x \in Bodies(k) : TRUE}),
            flow \in (IF out = "body" THEN BOOLEAN ELSE {TRUE}) :
         \E hdr \in (IF out = "body" THEN HeadersOf(b) ELSE {NoSig}) :
           LET m == CASE out = "retry" -> Finish(Cur, "retry")
                      [] out = "error" -> OnError(m0)
                      [] out = "empty" -> OnEmpty(m0)
                      [] OTHER -> OnBody(m0, k, b, flow, SessionFields(hdr))
               applied == out = "body" /\ ~m0.cancelled
               seen == applied /\ ~b.error
           IN /\ Commit(m)
              /\ last' = Note("response", m.path, out, reply.response_code,
                              out = "body" /\ b.error,
                              IF out = "body" THEN b.data ELSE NoData,
                              IF seen THEN b.state ELSE NullState,
                              seen /\ b.next,
                              IF applied THEN hdr ELSE NoSig,
                              IF seen /\ b.next THEN m.canPush ELSE TRUE)
      /\ UNCHANGED <<objectMode, fetchInfo, stateListener, client, destroyed,
                     destroyCb, cancelCalls, csv, call, p1, schema>>

\* The consumer calls statement.cancel().
Cancel ==
    /\ cancelCalls < MaxCancels
    /\ cancelCalls' = cancelCalls + 1
    /\ Commit(CancelCall(Cur, "user"))
    /\ UNCHANGED <<objectMode, fetchInfo, stateListener, client, destroyed,
                   destroyCb, last, csv, call, p1, schema>>

\* makeRequest completes the DELETE issued by client.kill for a cancel().
KillResponse ==
    \E o \in {x \in Origins : kills[x] > 0}, reply \in HttpReplies :
      LET out == MakeRequest(reply)
          ok == out \in {"body", "empty"}
      IN
      /\ IF out = "retry"
         THEN UNCHANGED <<kills, log, client, destroyCb>>
         ELSE /\ kills' = [kills EXCEPT ![o] = @ - 1]
              /\ log' = IF o = "error" /\ ~ok THEN Append(log, Ev("error", 0, 2)) ELSE log
              /\ client' = IF o = "destroy" THEN FALSE ELSE client
              /\ destroyCb' = IF o = "destroy" THEN (IF ok THEN "ok" ELSE "err")
                              ELSE destroyCb
      /\ last' = IF out = "retry" \/ o = "user" THEN last
                 ELSE Note("kill_" \o o, IF ok THEN "resolved" ELSE "rejected", "", 0,
                           FALSE, NoData, NullState, FALSE, NoSig, TRUE)
      /\ UNCHANGED <<objectMode, fetchInfo, stateListener, session, EOF, SOF, state,
                     nextUri, cancelled, isRunning, columns, destroyed, gets, infoGets,
                     timers, cancelCalls, faults, csv, call, p1, schema>>

\* makeRequest completes the GET of the info uri: its callback is undefined.
InfoResponse ==
    /\ infoGets > 0
    /\ \E reply \in HttpReplies :
         LET out == MakeRequest(reply) IN
         /\ IF out = "retry" THEN UNCHANGED <<infoGets, faults>>
            ELSE infoGets' = infoGets - 1 /\ faults' = faults + 1
    /\ UNCHANGED <<stmt, destroyed, destroyCb, gets, timers, kills, cancelCalls, log, last,
                   csv, call, p1, schema>>

\* Statement._destroy's test: the query may still be running on the server.
\* (mutant: the query is cancelled whatever its state)
DestroyCancels_Always == TRUE
\* (mutant: the test is inverted)
DestroyCancels_Inverted == state \in TerminalStates
DestroyCancels == state \notin TerminalStates

\* Readable.destroy() runs Statement._destroy (once).
Destroy ==
    /\ ~destroyed
    /\ destroyed' = TRUE
    /\ IF DestroyCancels
       THEN /\ Commit(CancelCall(Cur, "destroy"))
            /\ UNCHANGED client
       ELSE /\ nextUri' = NoUri
            /\ client' = FALSE
            /\ UNCHANGED <<EOF, SOF, state, cancelled, isRunning, columns, session, gets,
                           infoGets, timers, kills, log, faults>>
    /\ UNCHANGED <<objectMode, fetchInfo, stateListener, destroyCb, cancelCalls,
                   last, csv, call, p1, schema>>

Next ==
    \/ Read
    \/ TimerFires
    \/ GetResponse
    \/ Cancel
    \/ KillResponse
    \/ InfoResponse
    \/ Destroy

Spec == Init /\ [][Next]_vars

\* The Statement with a consumer that keeps pulling while the stream is open,
\* timers that fire and requests that are answered; cancel() and destroy()
\* remain the consumer's choice.
FairSpec ==
    /\ Spec
    /\ WF_vars(Read)
    /\ WF_vars(TimerFires)
    /\ WF_vars(GetResponse)
    /\ WF_vars(KillResponse)
    /\ WF_vars(InfoResponse)

\* ---------------------------------------------------------------- convertToCSV alone
\* One cell is given to one of the two encoding functions; the Statement is as
\* constructed and takes no step.
CsvInit ==
    /\ objectMode = FALSE
    /\ fetchInfo = FALSE
    /\ stateListener = FALSE
    /\ session = NoSession
    /\ EOF = FALSE
    /\ SOF = FALSE
    /\ state = NullState
    /\ nextUri = 1
    /\ cancelled = FALSE
    /\ isRunning = FALSE
    /\ client = TRUE
    /\ columns = NoColumns
    /\ destroyed = FALSE
    /\ destroyCb = "none"
    /\ gets = <<>>
    /\ infoGets = 0
    /\ timers = 0
    /\ kills = [o \in Origins |-> 0]
    /\ cancelCalls = 0
    /\ log = <<>>
    /\ faults = 0
    /\ last = Note("init", "", "", 0, FALSE, NoData, NullState, FALSE, NoSig, TRUE)
    /\ \E input \in Cells : csv = [input |-> input, output |-> <<>>, by |-> "none"]
    /\ call = NoCall
    /\ p1 = NoP1
    /\ schema = NoSchema

Encode ==
    /\ csv.by = "none"
    /\ csv' = [csv EXCEPT !.output = ConvertToCSV(csv.input), !.by = "lib/index.js"]
    /\ UNCHANGED <<stmt, env, call, p1, schema>>

EncodePart001 ==
    /\ csv.by = "none"
    /\ csv' = [csv EXCEPT !.output = ConvertToCSV_part_001(csv.input), !.by = "part_001"]
    /\ UNCHANGED <<stmt, env, call, p1, schema>>

CsvNext ==
    \/ Encode
    \/ EncodePart001

CsvSpec == CsvInit /\ [][CsvNext]_vars

\* ---------------------------------------------------------------- Client calls alone
\* One call of Client.execute, or one statement.cancel() on a Statement as
\* constructed, followed until its promise settles.
ClientInit ==
    /\ objectMode \in BOOLEAN
    /\ fetchInfo = FALSE
    /\ stateListener = FALSE
    /\ session = NoSession
    /\ EOF = FALSE
    /\ SOF = FALSE
    /\ state = NullState
    /\ nextUri = 1
    /\ cancelled = FALSE
    /\ isRunning = FALSE
    /\ client = TRUE
    /\ columns = NoColumns
    /\ destroyed = FALSE
    /\ destroyCb = "none"
    /\ gets = <<>>
    /\ infoGets = 0
    /\ timers = 0
    /\ kills = [o \in Origins |-> 0]
    /\ cancelCalls = 0
    /\ log = <<>>
    /\ faults = 0
    /\ last = Note("init", "", "", 0, FALSE, NoData, NullState, FALSE, NoSig, TRUE)
    /\ csv = NoCsv
    /\ p1 = NoP1
    /\ schema = NoSchema
    /\ \/ \E opts \in ExecuteOpts, reply \in SubmitReplies, body \in SubmitBodies,
               config \in PollIntervals :
            call = [NoCall EXCEPT !.op = "execute", !.opts = opts, !.reply = reply,
                                  !.body = body, !.config = config]
       \/ \E reply \in HttpReplies : call = [NoCall EXCEPT !.op = "cancel", !.reply = reply]

\* await client.execute(opts)
ExecuteSettles ==
    /\ call.op = "execute"
    /\ ~call.settled
    /\ call' = [call EXCEPT !.settled = TRUE,
                            !.outcome = Execute(call.opts, call.reply, call.body)]
    /\ UNCHANGED <<stmt, env, csv, p1, schema>>

\* The Statement that execute returned reaches the polling branch of _run's
\* callback and sets its timer.
PollScheduled ==
    /\ call.op = "execute"
    /\ call.settled
    /\ call.outcome.kind = "Statement"
    /\ call.delay = 0
    /\ call' = [call EXCEPT !.delay =
                   PollDelay(NewStatement(fetchInfo, ClientPollInterval(call.config)))]
    /\ UNCHANGED <<stmt, env, csv, p1, schema>>

\* statement.cancel() up to its await.
CancelCalled ==
    /\ call.op = "cancel"
    /\ Cancel

\* The DELETE is answered: client.kill settles and with it cancel().
KillSettles ==
    /\ call.op = "cancel"
    /\ ~call.settled
    /\ kills["user"] > 0
    /\ kills' = [kills EXCEPT !["user"] = @ - 1]
    /\ call' = [call EXCEPT !.settled = TRUE, !.outcome = Kill(call.reply)]
    /\ UNCHANGED <<stmt, destroyed, destroyCb, gets, infoGets, timers, cancelCalls, log,
                   faults, last, csv, p1, schema>>

ClientNext ==
    \/ ExecuteSettles
    \/ PollScheduled
    \/ CancelCalled
    \/ KillSettles

ClientSpec == ClientInit /\ [][ClientNext]_vars

\* ---------------------------------------------------------------- part_001's Statement alone
\* The Statement of unnamed/part_001 read by a consumer that pulls when run()
\* is not waiting; the server answers as for the other Statement.
BufferInit ==
    /\ objectMode \in BOOLEAN
    /\ fetchInfo = FALSE
    /\ stateListener = FALSE
    /\ session = NoSession
    /\ EOF = FALSE
    /\ SOF = FALSE
    /\ state = NullState
    /\ nextUri = 1
    /\ cancelled = FALSE
    /\ isRunning = FALSE
    /\ client = TRUE
    /\ columns = NoColumns
    /\ destroyed = FALSE
    /\ destroyCb = "none"
    /\ gets = <<>>
    /\ infoGets = 0
    /\ timers = 0
    /\ kills = [o \in Origins |-> 0]
    /\ cancelCalls = 0
    /\ log = <<>>
    /\ faults = 0
    /\ last = Note("init", "", "", 0, FALSE, NoData, NullState, FALSE, NoSig, TRUE)
    /\ csv = NoCsv
    /\ call = NoCall
    /\ p1 = NewP1
    /\ schema = NoSchema

\* _read(): this.run().
P1Read ==
    /\ p1.pending = "idle"
    /\ ~p1.EOF
    /\ Len(p1.fetched) < MaxFetches
    /\ \E d \in P1Drains(p1) : p1' = P1Run(p1, d[1], d[2])
    /\ UNCHANGED <<stmt, env, csv, call, schema>>

\* The request of run() resolves.
P1Response ==
    /\ p1.pending = "request"
    /\ LET k == p1.fetched[Len(p1.fetched)] IN
       \E b \in Bodies(k), hflow \in BOOLEAN :
         \E d \in P1Pushes(IF b.data = NoData THEN 0 ELSE b.data,
                           IF b.columns # NoColumns /\ ~p1.columns THEN hflow ELSE TRUE) :
           p1' = P1OnBody(p1, k, b, hflow, d[1], d[2])
    /\ UNCHANGED <<stmt, env, csv, call, schema>>

\* The poll delay of run() is over: return this.run().
P1Timer ==
    /\ p1.pending = "timer"
    /\ Len(p1.fetched) < MaxFetches
    /\ \E d \in P1Drains(p1) : p1' = P1Run(p1, d[1], d[2])
    /\ UNCHANGED <<stmt, env, csv, call, schema>>

BufferNext ==
    \/ P1Read
    \/ P1Response
    \/ P1Timer

BufferSpec == BufferInit /\ [][BufferNext]_vars

\* ---------------------------------------------------------------- column resolution alone
\* One column list is resolved as an object-mode Statement resolves the first
\* schema it receives, and one row object is built from the resolved names;
\* the Statement is as constructed and takes no step.
ColumnNames == {"a", "b", "a_1"}
ColumnInputs ==
    UNION { [1..n -> ColumnNames] : n \in 1..MaxColumns }

SchemaInit ==
    /\ objectMode = TRUE
    /\ fetchInfo = FALSE
    /\ stateListener = FALSE
    /\ session = NoSession
    /\ EOF = FALSE
    /\ SOF = FALSE
    /\ state = NullState
    /\ nextUri = 1
    /\ cancelled = FALSE
    /\ isRunning = FALSE
    /\ client = TRUE
    /\ columns = NoColumns
    /\ destroyed = FALSE
    /\ destroyCb = "none"
    /\ gets = <<>>
    /\ infoGets = 0
    /\ timers = 0
    /\ kills = [o \in Origins |-> 0]
    /\ cancelCalls = 0
    /\ log = <<>>
    /\ faults = 0
    /\ last = Note("init", "", "", 0, FALSE, NoData, NullState, FALSE, NoSig, TRUE)
    /\ csv = NoCsv
    /\ call = NoCall
    /\ p1 = NoP1
    /\ \E input \in ColumnInputs :
         schema = [input |-> input, names |-> NoColumns, output |-> <<>>, step |-> "received"]

ResolveColumns ==
    /\ schema.step = "received"
    /\ schema' = [schema EXCEPT !.names = DedupColumns(schema.input), !.step = "resolved"]
    /\ UNCHANGED <<stmt, env, csv, call, p1>>

BuildRow ==
    /\ schema.step = "resolved"
    /\ schema' = [schema EXCEPT !.output = RowObject(schema.names), !.step = "row"]
    /\ UNCHANGED <<stmt, env, csv, call, p1>>

SchemaNext ==
    \/ ResolveColumns
    \/ BuildRow

SchemaSpec == SchemaInit /\ [][SchemaNext]_vars

\* ---------------------------------------------------------------- claims
\* A step in which _run's callback ran for a completed GET of the next-uri chain.
ResponseStep == last'.op = "response" /\ gets' # gets
\* What the step appended to the log.
Appended == SubSeq(log', Len(log) + 1, Len(log'))
Extends == Len(log') >= Len(log) /\ SubSeq(log', 1, Len(log)) = log
IsRows(e) == e.k \in {"row", "block"}

\* C1: at most one GET against the next-uri chain is outstanding, and no poll
\* timer is pending while a GET is outstanding.
C1_SingleFlight == Len(gets) <= 1 /\ ~(timers > 0 /\ Len(gets) > 0)
\* A pull arrives while the fetch is outstanding and a cancel() was made.
C1_Witness == Len(gets) = 1 /\ last.op = "read" /\ last.path = "busy" /\ cancelled

\* C2: the end marker is pushed at most once, s_EOF is set exactly when it has
\* been pushed and never goes back, and no item follows the marker.
EndIsLast ==
    /\ Count("end") <= 1
    /\ EOF <=> Count("end") = 1
    /\ \A j \in 1..Len(log) :
         log[j].k = "end" => \A h \in (j + 1)..Len(log) : ~IsItem(log[h])
C2_EndOnce == [](EndIsLast) /\ [][EOF => EOF']_vars
\* cancel() after the stream ended by exhaustion: still one marker.
C2_Witness == EOF /\ cancelled /\ Count("success") = 1 /\ Count("end") = 1

\* C3: a response handed to the callback after cancel() emits nothing of its
\* payload and pushes the end marker (exactly one: none was pushed before).
C3_CancelInFlight ==
    [][(ResponseStep /\ cancelled /\ last'.out \in {"body", "empty"})
         => (~EOF /\ EOF' /\ log' = Append(log, EndMarker) /\ ~isRunning'
             /\ columns' = columns)]_vars
\* A response with two rows was discarded after cancel().
C3_Witness ==
    /\ cancelled /\ EOF /\ last.op = "response" /\ last.path = "cancelled"
    /\ last.data = 2 /\ Count("row") = 0 /\ Count("block") = 0

\* C4: once s_cancelled is set no GET against the next-uri chain is issued.
C4_NoGetAfterCancel == [][cancelled => (gets' = gets \/ Len(gets') < Len(gets))]_vars
\* The poll timer fired after cancel() and the loop returned without a GET.
C4_Witness == cancelled /\ last.op = "timer" /\ last.path = "cancelled" /\ gets = <<>>

\* C5: the rows of a response that is processed (a body without error field,
\* the statement neither cancelled nor torn down) are pushed exactly once, in
\* order, whatever push returns; over the whole log rows appear in delivery order.
RowsOf(k, n) ==
    IF objectMode THEN [i \in 1..n |-> Ev("row", k, i)] ELSE <<Ev("block", k, n)>>
InOrder ==
    \A x, y \in 1..Len(log) :
      (x < y /\ IsRows(log[x]) /\ IsRows(log[y]))
        => \/ log[x].p < log[y].p
           \/ log[x].k = "row" /\ log[x].p = log[y].p /\ log[x].i < log[y].i
C5_RowsOnceInOrder ==
    /\ [](InOrder)
    /\ [][(ResponseStep /\ ~cancelled /\ ~destroyed /\ last'.out = "body"
           /\ ~last'.err /\ last'.data # NoData)
            => /\ Extends
               /\ \E i \in 1..Len(gets) :
                    SelectSeq(Appended, IsRows) = RowsOf(gets[i], last'.data)]_vars
\* Push returned false on a response of two rows: both rows are in the log.
C5_Witness ==
    /\ objectMode /\ last.op = "response" /\ last.path = "backpressure"
    /\ last.data = 2 /\ Count("row") >= 2

\* C6: the back-pressure branch advances next_uri, issues no fetch and clears
\* is_running; the next _read (no cancel() in between) issues one GET of next_uri.
C6_BackPressure ==
    [][/\ (ResponseStep /\ last'.path = "backpressure")
            => (Len(gets) = 1 /\ nextUri' = gets[1] + 1 /\ gets' = <<>>
                /\ timers' = 0 /\ ~isRunning')
       /\ (last.op = "response" /\ last.path = "backpressure" /\ last'.op = "read"
           /\ ~cancelled)
            => (nextUri # NoUri /\ gets' = <<nextUri>> /\ isRunning'
                /\ nextUri' = nextUri)]_vars
\* A pull resumed the loop at the advanced uri.
C6_Witness == last.op = "read" /\ last.path = "fetch" /\ gets = <<2>>

\* C7 (as claimed): a failed fetch emits one 'error', pushes nothing and stops the loop.
C7_FetchFailureReported ==
    [][(ResponseStep /\ last'.out = "error")
         => (log' = Append(log, Ev("error", 0, 0)) /\ gets' = <<>> /\ faults' = faults)]_vars

\* C8 (as claimed): every response with an error field emits an error, nothing
\* of its payload, issues the kill and stops; a failed kill emits a second error.
C8_QueryErrorAlways ==
    [][(ResponseStep /\ last'.err)
         => (Extends /\ Len(Appended) >= 1 /\ Appended[1].k = "error"
             /\ gets' = <<>>)]_vars
\* C8 (amended): the same for a response that arrives before any cancel(); with
\* the client released the kill fails at once and is the second error.
C8_QueryError ==
    [][/\ (ResponseStep /\ last'.err /\ ~cancelled)
            => /\ Len(gets) = 1
               /\ log' = log \o (IF client
                                 THEN <<Ev("error", gets[1], 1)>>
                                 ELSE <<Ev("error", gets[1], 1), Ev("error", 0, 2)>>)
               /\ kills' = IF client THEN [kills EXCEPT !["error"] = @ + 1] ELSE kills
               /\ columns' = columns
               /\ gets' = <<>> /\ timers' = timers /\ ~isRunning' /\ cancelled'
       /\ (kills'["error"] < kills["error"] /\ last'.path = "rejected")
            => log' = Append(log, Ev("error", 0, 2))]_vars
\* The kill issued for a query error failed and was reported.
C8_Witness ==
    /\ last.op = "kill_error" /\ last.path = "rejected"
    /\ Count("error") = 2 /\ kills["error"] = 0

\* C9 (as claimed): a 503 reply is never handed to the caller, the request is retried.
C9_Retry503 == (last.op = "response" /\ last.busy) => last.out = "retry"

SuffixLater(cols) ==
    [j \in 1..Len(cols) |->
       LET n == Cardinality({h \in 1..(j - 1) : cols[h] = cols[j]}) IN
       IF n = 0 THEN cols[j] ELSE cols[j] \o "_" \o ToString(n)]

\* C11 (as claimed): object mode: the stored column list is the received list
\* with the first occurrence of each name unchanged and the later occurrences
\* suffixed _1, _2, ...: [a, a, b] is stored as [a, a_1, b].
C11_FirstOccurrenceKept ==
    objectMode => columns \in {NoColumns} \cup {SuffixLater(c) : c \in ColumnLists}

\* Text mode: the concatenation of the chunks pushed so far, and its lines
\* (a line ends at a newline or at the end of the text).
RECURSIVE Concat(_)
Concat(items) == IF items = <<>> THEN <<>> ELSE TextOf(Head(items)) \o Concat(Tail(items))
RECURSIVE SplitLines(_)
SplitLines(text) ==
    IF text = <<>> THEN <<>>
    ELSE LET ends == {j \in 1..Len(text) : text[j] = NL}
             j == IF ends = {} THEN Len(text) + 1
                  ELSE CHOOSE x \in ends : \A y \in ends : x <= y
         IN <<SubSeq(text, 1, j - 1)>> \o SplitLines(SubSeq(text, j + 1, Len(text)))

\* C12 (as claimed): text mode: the output of a statement drained to its end is
\* the header line followed by one line per row received: every line holds the
\* header or exactly one row, whatever the split of the rows over responses.
C12_OneLinePerRow ==
    (~objectMode /\ EOF /\ ~cancelled)
      => LET lines == SplitLines(Concat(log)) IN
         /\ \A j \in 1..Len(lines) : Len(lines[j]) = 1
         /\ Len(lines) = Count("header")
              + Cardinality(UNION {{h} \X (1..log[h].i) :
                                     h \in {x \in 1..Len(log) : log[x].k = "block"}})

\* The rendering of a cell with string form t, stated on the output: an
\* opening quote, every character of t in order with each quote twice, and a
\* closing quote.
Quoted(t, out) ==
    LET \* where character j of t starts in out
        at(j) == 1 + j + Cardinality({h \in 1..(j - 1) : t[h] = Q})
        quotes == Cardinality({h \in 1..Len(t) : t[h] = Q})
    IN /\ Len(out) = Len(t) + quotes + 2
       /\ out[1] = Q /\ out[Len(out)] = Q
       /\ \A j \in 1..Len(t) : out[at(j)] = t[j] /\ (t[j] = Q => out[at(j) + 1] = Q)
\* A bare number; two quotes for null; else the quoted string form (for a
\* compound value either String's or the JSON serializer's).
Rendered(input, out) ==
    CASE input.type = "number" -> out = <<ToString(input.num)>>
      [] input.type = "object" /\ input.isNull -> out = <<Q, Q>>
      [] input.type = "object" /\ ~input.isNull ->
           Quoted(Stringify(input), out) \/ Quoted(StringOf(input), out)
      [] OTHER -> Quoted(StringOf(input), out)

\* C13 (as claimed): each text-encoding function of the repository renders
\* every cell as specified, doubling every quote of a string.
C13_TextEncoding == csv.by # "none" => Rendered(csv.input, csv.output)
\* convertToCSV of lib/index.js by itself renders every cell as specified.
LibEncodingConforms == csv.by = "lib/index.js" => Rendered(csv.input, csv.output)

\* The number of events of kind k among those the step appended.
CountAppended(k) == Cardinality({j \in 1..Len(Appended) : Appended[j].k = k})
\* _run's callback ran past the cancellation and error checks and read data.stats.
ProcessedStep == ResponseStep /\ last'.st # NullState

\* C14: a processed response emits state_change (once, for that response) iff
\* the state it reports differs from the last-known state, and the last-known
\* state is then the reported state; nothing else changes the state or emits
\* state_change.
C14_StateChange ==
    [][/\ ProcessedStep
            => /\ Extends
               /\ state' = last'.st
               /\ CountAppended("state_change") = (IF last'.st # state THEN 1 ELSE 0)
               /\ \A j \in 1..Len(Appended) :
                    Appended[j].k = "state_change"
                      => Len(gets) = 1 /\ Appended[j] = Ev("state_change", gets[1], 0)
       /\ ~ProcessedStep => (state' = state /\ (Extends => CountAppended("state_change") = 0))]_vars
\* Two responses reported RUNNING: one state_change, two periodic notifications.
C14_Witness ==
    /\ stateListener /\ state = "RUNNING" /\ last.op = "response" /\ last.st = "RUNNING"
    /\ Count("state") = 2 /\ Count("state_change") = 1

\* C15 (as claimed): a response that reaches a statement not cancelled and
\* reports a state other than the last-known one (FAILED when it carries an
\* error payload) sets Statement.state to it and emits state_change.
C15_StateChangeOnFailed ==
    [][(ResponseStep /\ ~cancelled /\ last'.out = "body")
         => LET reported == IF last'.err THEN "FAILED" ELSE last'.st IN
            reported # state => (state' = reported /\ CountAppended("state_change") = 1)]_vars

\* C16: once the last-known state has become FINISHED (s_SOF is set with it
\* and never cleared), no step emits the periodic 'state' notification,
\* whatever later responses report.
C16_NoStateAfterFinished ==
    /\ [](state = "FINISHED" => SOF)
    /\ [][SOF => (SOF' /\ Extends /\ CountAppended("state") = 0)]_vars
\* A response reported RUNNING after FINISHED: the only 'state' notification
\* is the one of the response that reported FINISHED.
C16_Witness ==
    /\ stateListener /\ SOF /\ state = "RUNNING" /\ last.op = "response"
    /\ last.st = "RUNNING" /\ Count("state") = 1 /\ Count("state_change") = 2

Rank(e) ==
    CASE e.k = "state" -> 1
      [] e.k = "state_change" -> 2
      [] e.k = "columns" -> 3
      [] e.k = "header" -> 4
      [] e.k \in {"row", "block"} -> 5
      [] e.k = "success" -> 6
      [] OTHER -> 0

IsQueryError(e) == e.k = "error" /\ e.i = 1

\* C19: without fetchInfo a processed response (statement not torn down) that
\* has no nextUri emits 'success' for that response, last; 'success' is in the
\* log at most once, after the end marker, never together with a query error,
\* and no step emits it once s_cancelled is set.
C19_Success ==
    /\ [](/\ Count("success") <= 1
          /\ \A y \in 1..Len(log) :
               log[y].k = "success"
                 => /\ \E x \in 1..(y - 1) : log[x] = EndMarker
                    /\ \A x \in 1..Len(log) : ~IsQueryError(log[x]))
    /\ [][/\ (ProcessedStep /\ ~fetchInfo /\ ~last'.next /\ ~destroyed)
               => /\ Extends /\ Len(gets) = 1 /\ Len(Appended) > 0
                  /\ Appended[Len(Appended)] = Ev("success", gets[1], 0)
          /\ (Extends /\ CountAppended("success") > 0)
               => (ProcessedStep /\ ~cancelled /\ ~last'.next /\ EOF')]_vars
\* The second response had no nextUri and the statement succeeded with its stats.
C19_Witness ==
    /\ ~fetchInfo /\ last.op = "response" /\ last.st # NullState /\ ~last.next
    /\ log # <<>> /\ log[Len(log)] = Ev("success", 2, 0)

\* C20 (as claimed): the handler that issues the GET of the info uri issues
\* exactly one and does not fault; when that GET completes, well or not,
\* 'success' is emitted, with no 'error' and no fault.
C20_InfoSuccess ==
    [][/\ infoGets' > infoGets
            => (infoGets' = infoGets + 1 /\ faults' = faults /\ CountAppended("error") = 0)
       /\ infoGets' < infoGets
            => (CountAppended("success") = 1 /\ CountAppended("error") = 0
                /\ faults' = faults)]_vars

\* C21 (as claimed): after a response that reaches a statement not cancelled,
\* the stored session is the token the response signals, absent if it signals
\* session-clear, and unchanged otherwise.
C21_SessionPropagation ==
    [][(ResponseStep /\ last'.out = "body" /\ ~cancelled)
         => session' = (IF last'.sig.set # NoSession THEN last'.sig.set
                        ELSE IF last'.sig.clear THEN NoSession
                        ELSE session)]_vars

\* A pull or a timer callback enters _run's body and gets past the cancel check.
FetchStep == ~isRunning /\ isRunning' /\ last'.op \in {"read", "timer"}

\* C22 (as claimed): when the Statement holds a session token, a fetch started
\* by _run issues its GET and nothing is thrown before the request is sent.
C22_SessionRequestIssued ==
    [][(FetchStep /\ session # NoSession)
         => (gets' = Append(gets, nextUri) /\ faults' = faults)]_vars

\* The request of a call got an answer makeRequest passes on as a success.
Answered(reply) == MakeRequest(reply) \in {"body", "empty"}
\* The payload of the answer, as cancel() would return it.
Payload == "data"

\* C23 (as claimed): cancel() sets the flag, clears next_uri and issues the
\* kill; once it settles the flag is still set and next_uri still cleared, and
\* it resolved with the server's payload if the kill succeeded and was
\* rejected if not.
C23_CancelResult ==
    /\ (call.op = "cancel" /\ cancelCalls > 0)
         => (cancelled /\ nextUri = NoUri /\ (~call.settled => kills["user"] > 0))
    /\ (call.op = "cancel" /\ call.settled)
         => IF Answered(call.reply)
            THEN call.outcome.kind = "resolved" /\ call.outcome.value = Payload
            ELSE call.outcome.kind \in {"Error", "prestoError"}

\* The submit response deviates: a status other than 200, no JSON object as
\* body, an error field, or id, nextUri or infoUri missing.
Deviates(reply, body) ==
    \/ reply.response_code # 200
    \/ ~(reply.json /\ reply.parses)
    \/ body.error # "none"
    \/ ~body.id \/ ~body.nextUri \/ ~body.infoUri

\* C26 (as claimed): once the submit response has arrived, Client.execute
\* fails with a prestoError carrying the response code and the body if the
\* response deviates, and otherwise yields a Statement seeded with the
\* body's nextUri and id.
C26_ExecuteProtocolError ==
    (call.op = "execute" /\ call.settled /\ call.outcome.sent /\ call.reply.net = "ok")
      => IF Deviates(call.reply, call.body)
         THEN call.outcome.kind = "prestoError" /\ call.outcome.code /\ call.outcome.data
         ELSE call.outcome.kind = "Statement" /\ call.outcome.value = "nextUri,id"

\* C25: _destroy issues the kill iff the last-known state is not terminal; the
\* client reference is kept while that kill is outstanding and released when
\* it completes, and the teardown callback gets the error iff the kill failed.
C25_Teardown ==
    [][/\ (destroyed' /\ ~destroyed)
            => ((kills'["destroy"] = kills["destroy"] + 1) <=> (state \notin TerminalStates))
       /\ kills'["destroy"] > 0 => client'
       /\ kills'["destroy"] < kills["destroy"]
            => /\ ~client'
               /\ last'.op = "kill_destroy"
               /\ destroyCb' = (IF last'.path = "rejected" THEN "err" ELSE "ok")]_vars
\* The kill issued by a teardown failed and the callback got the error.
C25_Witness == destroyed /\ destroyCb = "err" /\ ~client /\ last.path = "rejected"

\* C24 (as claimed): once cancel() has been invoked on a stream that is not
\* torn down, the end-of-stream marker is eventually produced.
C24_CancelEndsStream == [](cancelled => <>(EOF \/ destroyed))

\* The premises of draining fail: a response of the chain was a failure (no
\* parsed body, or a body with an error field), or the consumer cancelled or
\* destroyed the stream.
NotDrained ==
    \/ cancelled
    \/ destroyed
    \/ last.op = "response" /\ (last.out \in {"error", "empty"} \/ last.err)

SuccessEvents == { i \in 1..Len(Appended) : Appended[i].k = "success" }

\* C28 (as claimed): the stats carried by the terminal notification have state
\* FINISHED, CANCELED or FAILED.
C28_TerminalStats ==
    [][SuccessEvents # {} => (ProcessedStep /\ last'.st \in TerminalStates)]_vars

\* C28 (amended): 'success' is emitted only for a processed response without
\* continuation uri and carries that response's stats, whose state is then
\* the Statement's last-known state, whatever state the server reported.
C28_StatsOfLastResponse ==
    [][\A i \in SuccessEvents :
         /\ ProcessedStep
         /\ ~last'.next
         /\ state' = last'.st
         /\ \E j \in 1..Len(gets) : Appended[i] = Ev("success", gets[j], 0)]_vars
\* A drained statement whose last response reported FINISHED.
C28_Witness ==
    /\ last.op = "response" /\ last.path = "exhausted" /\ last.st = "FINISHED"
    /\ state = "FINISHED" /\ EOF
    /\ \E i \in 1..Len(log) : log[i].k = "success"

\* C29 (as claimed): next_uri is absent iff the end-of-stream flag is set.
C29_AbsentIffEnded == (nextUri = NoUri) <=> EOF

\* C29 (amended): next_uri is absent whenever the statement is cancelled, and
\* only a cancelled or torn-down statement has it absent; the end-of-stream
\* flag follows a cancellation later and natural exhaustion sets it with
\* next_uri still present.
C29_AbsentWhenCancelled ==
    /\ cancelled => nextUri = NoUri
    /\ nextUri = NoUri => (cancelled \/ destroyed)
    /\ (EOF /\ ~cancelled /\ ~destroyed) => nextUri # NoUri
\* A drained statement that keeps its uri.
C29_Witness ==
    /\ EOF /\ ~cancelled /\ ~destroyed
    /\ nextUri # NoUri
    /\ last.op = "response" /\ last.path = "exhausted"

\* C30 (as claimed): is_running is true only while the Statement has a fetch
\* under way (a GET outstanding, or the poll timer that re-issues it pending),
\* and it is false when a pull starts a new fetch.
C30_RunningWhileFetching ==
    [][/\ isRunning' => (Len(gets') > 0 \/ timers' > 0)
       /\ (last'.op = "read" /\ Len(gets') > Len(gets)) => ~isRunning]_vars

\* C31 (as claimed): the delay of the poll timer of a Statement returned by
\* Client.execute is the poll interval of the Client: the configured one, or
\* 3000 ms when none was configured.
C31_PollDelay ==
    (call.op = "execute" /\ call.delay # 0)
      => call.delay = (IF call.config # 0 THEN call.config ELSE QUERY_STATE_CHECK_INTERVAL)

\* The response processed in this step makes the loop poll: a polling state
\* and no data field.
Polls == last'.st \in PollStates /\ last'.data = NoData
\* The step pushed an item (header, rows or the end marker).
PushedItems == { i \in 1..Len(Appended) : Appended[i].k \in {"header", "row", "block", "end"} }

\* C32: the poll timer is set by a processed response that reports a polling
\* state without data, and by nothing else; that response advances next_uri,
\* records no columns and pushes no item; any other processed response with a
\* continuation uri and a positive flow-control signal is followed at once by
\* the next fetch, without a timer (for a statement not torn down).
C32_PollSuspension ==
    [][/\ timers' > timers => (ProcessedStep /\ Polls)
       /\ (ProcessedStep /\ Polls)
            => /\ timers' = timers + 1
               /\ nextUri' = gets[1] + 1
               /\ columns' = columns
               /\ PushedItems = {}
               /\ gets' = <<>>
       /\ (ProcessedStep /\ ~Polls /\ last'.next /\ last'.flow /\ ~destroyed)
            => /\ gets' = <<gets[1] + 1>>
               /\ nextUri' = gets[1] + 1
               /\ timers' = timers]_vars
\* The loop waits on the poll timer after the first response.
C32_Witness ==
    /\ last.op = "response" /\ last.path = "poll"
    /\ timers = 1 /\ gets = <<>> /\ nextUri = 2 /\ isRunning

\* C33: a response without error field handed to the callback after the
\* cancellation flag was set changes neither the last-known state nor the
\* columns nor the session, emits no notification and issues nothing; it only
\* pushes the end marker (if none was pushed) and clears is_running.
C33_LateResponseFrame ==
    [][(ResponseStep /\ cancelled /\ last'.out \in {"body", "empty"} /\ ~last'.err)
         => /\ state' = state /\ SOF' = SOF /\ columns' = columns /\ session' = session
            /\ nextUri' = nextUri /\ cancelled'
            /\ timers' = timers /\ kills' = kills /\ infoGets' = infoGets
            /\ faults' = faults /\ Len(gets') < Len(gets)
            /\ Extends
            /\ \A i \in 1..Len(Appended) : Appended[i] = EndMarker
            /\ EOF' /\ ~isRunning']_vars
\* The first response, with rows, arrived after cancel(): the statement still
\* has no state and no columns.
C33_Witness ==
    /\ cancelled /\ EOF /\ ~isRunning
    /\ last.op = "response" /\ last.path = "cancelled" /\ last.data = 2
    /\ state = NullState /\ columns = NoColumns
    /\ \A i \in 1..Len(log) : log[i].k \notin {"state", "state_change", "columns", "success"}

\* C34: a statement torn down while its poll timer is pending is cancelled by
\* the teardown, which leaves the timer pending; the cancellation is never
\* taken back, and when the timer fires the loop returns at its cancellation
\* check: no GET is issued and nothing is thrown.
C34_TornDownMidPoll ==
    [][/\ (destroyed' /\ ~destroyed /\ timers > 0) => (cancelled' /\ timers' = timers)
       /\ cancelled => cancelled'
       /\ (destroyed /\ cancelled /\ timers' < timers)
            => /\ last'.op = "timer" /\ last'.path = "cancelled"
               /\ gets = <<>> /\ gets' = <<>>
               /\ faults' = faults
               /\ ~isRunning']_vars
\* The timer fired after a teardown that no cancel() had preceded.
C34_Witness ==
    /\ destroyed /\ cancelCalls = 0 /\ cancelled
    /\ last.op = "timer" /\ last.path = "cancelled"
    /\ gets = <<>> /\ timers = 0 /\ faults = 0

\* C35 (as claimed): in the Statement that keeps a readBuffer, the rows queued
\* under back-pressure are delivered before any new fetch, and since the
\* continuation uri is adopted no page is fetched twice and no row is
\* delivered twice.
C35_QueueNoRefetch ==
    /\ p1.pending = "request" => p1.readBuffer = <<>>
    /\ \A i, j \in 1..Len(p1.fetched) : i # j => p1.fetched[i] # p1.fetched[j]
    /\ \A i, j \in 1..Len(p1.log) :
         (i # j /\ p1.log[i].k = "row") => p1.log[i] # p1.log[j]

\* C36 (as claimed): while the end of the stream has not been signaled and
\* neither a fetch is outstanding nor a poll timer pending, is_running is
\* false, so that the next pull restarts the loop. Stated for a Statement
\* without session token, whose requests are all sent: the case the claim
\* names is the state after a failed fetch.
C36_NoStuckLoop ==
    (session = NoSession /\ ~EOF /\ gets = <<>> /\ timers = 0) => ~isRunning

\* C37 (as claimed): in object mode the column names stored after the
\* resolution are pairwise distinct for every column list, also for one in
\* which a suffixed name such as a_1 already occurs; a record built from them
\* has as many keys as there are columns and holds every cell.
C37_DistinctColumnNames ==
    /\ schema.step \in {"resolved", "row"} =>
         \A y, z \in 1..Len(schema.names) : schema.names[y] = schema.names[z] => y = z
    /\ schema.step = "row" =>
         /\ Cardinality(DOMAIN schema.output) = Len(schema.names)
         /\ \A y \in 1..Len(schema.names) : schema.output[schema.names[y]] = y

\* C38 (as claimed): every teardown completes: once _destroy has run and no
\* remote cancellation of it is outstanding, the teardown callback has been
\* invoked, whether the last-known state was terminal or not.
C38_TeardownCompletes ==
    (destroyed /\ kills["destroy"] = 0) => destroyCb # "none"

\* The kill requests issued and not yet answered.
KillsOutstanding == kills["user"] + kills["error"] + kills["destroy"]

\* C39 (as claimed): the remote kill is issued at most once per Statement: a
\* Statement that was already cancelled, through cancel() or through the
\* query-error path, issues no further kill, in particular not at teardown.
C39_KillAtMostOnce ==
    [][KillsOutstanding' > KillsOutstanding => ~cancelled]_vars

\* C39 (amended): one kill is issued by every cancel(), by every query-error
\* response and by every teardown in a non-terminal state, as long as the
\* client is held, whether or not the Statement was cancelled before; nothing
\* else issues a kill, and a teardown in a terminal state issues none.
C39_KillPerOccurrence ==
    [][/\ KillsOutstanding' > KillsOutstanding =>
            /\ KillsOutstanding' = KillsOutstanding + 1
            /\ client
            /\ \/ cancelCalls' > cancelCalls
               \/ ResponseStep /\ last'.path = "error"
               \/ destroyed' /\ ~destroyed /\ state \notin TerminalStates
       /\ (destroyed' /\ ~destroyed) =>
            (kills'["destroy"] = kills["destroy"] + 1 <=> state \notin TerminalStates)
       /\ (cancelCalls' > cancelCalls /\ client) => kills'["user"] = kills["user"] + 1
       /\ (ResponseStep /\ last'.path = "error" /\ client) =>
            kills'["error"] = kills["error"] + 1]_vars

\* A Statement cancelled through the query-error path is torn down before the
\* first kill was answered: two kills are outstanding.
C39_Witness ==
    destroyed /\ kills["error"] = 1 /\ kills["destroy"] = 1 /\ cancelCalls = 0

\* C40 (as claimed): a well-formed response that arrives after the Statement
\* was torn down is processed without a fault and starts no new fetch, also
\* when the teardown found a terminal state and released the client at once.
C40_LateResponseHarmless ==
    [][(ResponseStep /\ destroyed /\ last'.out = "body") =>
          /\ faults' = faults
          /\ Len(gets') < Len(gets)]_vars

====
